---- MODULE Spec2Model ----
(***************************************************************************)
(* htcluster: the submit-side compilation of a job document into a        *)
(* RunnerPayload (JobParams validation, implicit outputs, task expansion, *)
(* transfer routing), the preparation of the submit host over sftp, the   *)
(* transport of the plan, and the execution server's loop and descriptor  *)
(* compiler; the document tags, the size validator and the database write *)
(* as functions.                                                           *)
(*                                                                         *)
(* Strings and paths are sequences of tokens; "/" and "." are tokens of    *)
(* their own, so that Path.name, the split on "." and with_suffix are      *)
(* computed as the code computes them.  Python lists are 0-based: task j   *)
(* of the code is position j+1 of a sequence here.                         *)
(***************************************************************************)
EXTENDS Integers, Sequences, FiniteSets, TLC

\* pc:         where run_cluster_job and the server stand: "start", "loaded",
\*             "load_failed", "compiled", "compile_failed", "prepared",
\*             "prep_failed", "sent", "done", "served"; "listening" for a
\*             server between two requests; "called" and "returned" around
\*             the call of one function on tag_call
\* doc:        the job document handed to ClusterJob(**doc)
\* cj:         the ClusterJob constructed from it (NoJob before, or on failure)
\* err:        the exception that ended the run (NoError while there is none)
\* sub_data:   the SubmissionData get_submission_data returned
\* submission: what make_submission yielded for the plan on the server
\* args:       run_cluster_job's dry_run, test_local and one_job
\* remote:     the submit host as the sftp session leaves it: the directories
\*             found there (fs) and the calls made on it in order (log)
\* printed:    the lines printed: by the dry-run stand-ins of the sftp calls
\*             on stderr, by run_cluster_job on stdout
\* wire:       the request in flight to an execution server
\* server:     the execution server: its dry_run flag, whether its loop is
\*             running, the replies it sent, its socket, scheduler and db
\*             calls in order (events), the submissions handed to the
\*             scheduler, the db rows, its log, and the plan it parsed last
\* tag_call:   a function under evaluation with its arguments
\* tag_ret:    what that call returned or raised
VARIABLES pc, doc, cj, err, sub_data, submission, args, remote, printed, wire, server,
          tag_call, tag_ret

vars == <<pc, doc, cj, err, sub_data, submission, args, remote, printed, wire, server,
          tag_call, tag_ret>>

(* ------------------------------ bounds -------------------------------- *)

\* longest in_files list, explicit out_files list and params sequence drawn
MaxLen == 2

\* in_files entries of a document: a path with a directory and two
\* extensions, a bare name with one extension, a dot-file
InPaths ==
    { <<"d", "/", "a", ".", "b", ".", "c">>, <<"a", ".", "c">>, <<".", "h">> }

\* explicit out_files entries: a bare name, a name under a sub-directory
OutPaths == { <<"o", ".", "t">>, <<"s", "/", "o">> }

\* arguments of !implicit_out: a well-formed suffix, one without its dot
Suffixes == { <<".", "x">>, <<"x">> }

\* the key sequences (document order) of a params mapping
KeyOrders == { <<>>, <<"x">>, <<"y", "x">>, <<"x", "y", "z">> }

\* longest memory or disk string drawn
MaxSizeLen == 4

\* the characters of the memory and disk strings drawn: digits, units, the
\* B, a sign, a character of neither kind
SizeChars == { "1", "0", "G", "B", "-", "x" }

\* most arguments in a !range sequence
MaxRangeArgs == 4

\* most files a glob matches
MaxFiles == 3

\* most requests a server is followed over, most calls of
\* write_submission_data on one db
MaxMessages == 2

(* ------------------------------ helpers ------------------------------- *)

None == [none |-> TRUE]

Some(v) == [none |-> FALSE, v |-> v]

Ok(v) == [ok |-> TRUE, v |-> v]

Raise(e) == [ok |-> FALSE, exc |-> e]

SetMin(S) == CHOOSE x \in S : \A y \in S : x <= y

SetMax(S) == CHOOSE x \in S : \A y \in S : x >= y

SeqsUpTo(S, n) == UNION { [1..k -> S] : k \in 0..n }

\* pathlib: PurePath.name, the final path component
PathName(p) ==
    LET seps == { i \in 1..Len(p) : p[i] = "/" }
    IN  IF seps = {} THEN p ELSE SubSeq(p, SetMax(seps) + 1, Len(p))

\* pathlib: PurePath.suffix, from the last dot of the name, unless that dot
\* starts or ends the name
PathSuffix(p) ==
    LET name == PathName(p)
        dots == { i \in 1..Len(name) : name[i] = "." }
    IN  IF dots = {} THEN <<>>
        ELSE LET i == SetMax(dots)
             IN  IF 1 < i /\ i < Len(name)
                 THEN SubSeq(name, i, Len(name)) ELSE <<>>

\* pathlib: a / b
PathJoin(a, b) ==
    IF b # <<>> /\ b[1] = "/" THEN b ELSE a \o <<"/">> \o b

\* pathlib: PurePath.with_suffix; ValueError on a suffix holding a
\* separator, not starting with a dot or being the dot alone, and on a
\* path with an empty name
with_suffix(p, suffix) ==
    IF \E i \in 1..Len(suffix) : suffix[i] = "/"
    THEN Raise("ValueError")
    ELSE IF (suffix # <<>> /\ suffix[1] # ".") \/ suffix = <<".">>
    THEN Raise("ValueError")
    ELSE IF PathName(p) = <<>>
    THEN Raise("ValueError")
    ELSE LET old == PathSuffix(p)
         IN  Ok(SubSeq(p, 1, Len(p) - Len(old)) \o suffix)

Digit(d) == <<"0", "1", "2", "3", "4", "5", "6", "7", "8", "9">>[d + 1]

\* str(int) of a non-negative integer
RECURSIVE str_int(_)
str_int(n) ==
    IF n < 10 THEN <<Digit(n)>> ELSE str_int(n \div 10) \o <<Digit(n % 10)>>

(* ------------------- validators.py: JobParams ------------------------- *)

\* the value of params[key] in a document: n distinct values, so that a
\* reordering or a mix-up of keys shows
ParamValues(key, n) ==
    LET base == CASE key = "x" -> 0 [] key = "y" -> 10 [] OTHER -> 20
    IN  [i \in 1..n |-> base + i]

NoParams == [present |-> FALSE]

ParamsOf(keys, lens) ==
    [present |-> TRUE,
     items |-> [i \in 1..Len(keys) |-> [k |-> keys[i], v |-> ParamValues(keys[i], lens[i])]]]

\* the field defaults of JobParams: n_jobs = 0, _params_len = 0
JobParamsFields(in_files, out_files, params) ==
    [in_files |-> in_files, out_files |-> out_files, params |-> params,
     n_jobs |-> 0, _params_len |-> 0]

\* isinstance(v, Path) of the field validator: v is the whole field value,
\* a list of paths or an ImplicitOut, never a single Path
IsPathInstance(v) == v.kind = "path"

out_files_relative(v) ==
    IF IsPathInstance(v)
    THEN IF PathName(v.path) = v.path THEN Ok(v) ELSE Raise([exc |-> "AssertionError"])
    ELSE Ok(v)

has_inputs(self) == Len(self.in_files) > 0

has_outputs(self) ==
    IF self.out_files.kind = "list" THEN Len(self.out_files.names) > 0 ELSE FALSE

has_params(self) == self.params.present

\* first_divergent reporting the last divergent item instead of the first
first_divergent_last(items) ==
    LET first_len == Len(items[1].v)
        bad == { i \in 1..Len(items) : Len(items[i].v) # first_len }
    IN  IF bad = {} THEN 0 ELSE SetMax(bad)

\* the loop of validate_params: the position of the first item whose length
\* differs from the first item's, 0 when there is none
first_divergent(items) ==
    LET first_len == Len(items[1].v)
        bad == { i \in 1..Len(items) : Len(items[i].v) # first_len }
    IN  IF bad = {} THEN 0 ELSE SetMin(bad)

_assert_ins_equal_outs(self) ==
    LET n_in == Len(self.in_files)
        n_out == Len(self.out_files.names)
    IN  IF n_in # n_out
        THEN Raise([exc |-> "ValueError", msg |-> "ins_ne_outs", n_in |-> n_in, n_out |-> n_out])
        ELSE Ok(n_in)

\* _assert_ins_equal_params without its comparison
_assert_ins_equal_params_unchecked(self) == Ok(Len(self.in_files))

_assert_ins_equal_params(self) ==
    LET n_in == Len(self.in_files)
    IN  IF n_in # self._params_len
        THEN Raise([exc |-> "ValueError", msg |-> "ins_ne_params",
                    n_params |-> self._params_len, n_in |-> n_in])
        ELSE Ok(n_in)

_assert_outs_equal_params(self) ==
    LET n_out == Len(self.out_files.names)
    IN  IF n_out # self._params_len
        THEN Raise([exc |-> "ValueError", msg |-> "outs_ne_params",
                    n_params |-> self._params_len, n_out |-> n_out])
        ELSE Ok(n_out)

\* lines 47-56: the params block; yields self with _params_len set
validate_params_lengths(self) ==
    IF ~self.params.present THEN Ok(self)
    ELSE LET items == self.params.items
         IN  IF items = <<>> THEN Raise([exc |-> "StopIteration"])
             ELSE LET d == first_divergent(items)
                  IN  IF d # 0
                      THEN Raise([exc |-> "ValueError", msg |-> "params_unequal",
                                  first_key |-> items[1].k, first_len |-> Len(items[1].v),
                                  key |-> items[d].k, n_params |-> Len(items[d].v)])
                      ELSE Ok([self EXCEPT !._params_len = Len(items[1].v)])

\* "self.n_jobs = <check>()": the assignment, or the check's exception
assign_n_jobs(self, checked) ==
    IF checked.ok THEN Ok([self EXCEPT !.n_jobs = checked.v]) ELSE checked

\* line 57-58, on the outcome r of the lines before
check_ins_params(r) ==
    IF ~r.ok THEN r
    ELSE IF has_inputs(r.v) /\ has_params(r.v)
    THEN assign_n_jobs(r.v, _assert_ins_equal_params(r.v))
    ELSE r

\* line 59-60
check_ins_outs(r) ==
    IF ~r.ok THEN r
    ELSE IF has_inputs(r.v) /\ has_outputs(r.v)
    THEN assign_n_jobs(r.v, _assert_ins_equal_outs(r.v))
    ELSE r

\* line 61-62
check_outs_params(r) ==
    IF ~r.ok THEN r
    ELSE IF has_params(r.v) /\ has_outputs(r.v)
    THEN assign_n_jobs(r.v, _assert_outs_equal_params(r.v))
    ELSE r

\* line 63-65
check_axes(r) ==
    IF ~r.ok THEN r
    ELSE IF (~has_inputs(r.v)) /\ (~has_params(r.v))
    THEN Raise([exc |-> "ValueError", msg |-> "no_axes"])
    ELSE r

\* the model validator, run after the fields validated: the params block,
\* then the three "if <axes>: self.n_jobs = <check>()" statements in order,
\* then the test that an axis is present
validate_params(self) ==
    check_axes(check_outs_params(check_ins_outs(check_ins_params(validate_params_lengths(self)))))

\* JobParams(**doc): the field validator, then the model validator
JobParams(in_files, out_files, params) ==
    LET f == out_files_relative(out_files)
    IN  IF ~f.ok THEN f
        ELSE validate_params(JobParamsFields(in_files, f.v, params))

\* JobSettings as the document gives it; memory, disk, cpus and entrypoint
\* take no part in the compilation modelled here
JobSettings(in_staging, out_staging) ==
    [name |-> <<"job">>, docker_image |-> <<"img">>, classads |-> <<>>,
     in_staging |-> in_staging, out_staging |-> out_staging]


\* ClusterJob(**doc): JobSettings and JobParams; the first failure aborts
ClusterJob(in_files, out_files, params, in_staging, out_staging) ==
    LET jp == JobParams(in_files, out_files, params)
    IN  IF ~jp.ok THEN jp
        ELSE Ok([job |-> JobSettings(in_staging, out_staging), params |-> jp.v])

(* ------------------- job_submit/__main__.py --------------------------- *)

LOG_DIR == <<"log">>

INPUT_DIR == <<"input">>

OUTPUT_DIR == <<"output">>

CLUSTER_DIR == <<"analysis-results">>

\* config.ssh_remote_user
SshRemoteUser == <<"u">>

\* strip_suffixes leaving the name as it is
strip_suffixes_kept(name) == name

\* re.split(r"\.", name)[0]: the part of the name before its first dot
strip_suffixes(name) ==
    LET dots == { i \in 1..Len(name) : name[i] = "." }
    IN  IF dots = {} THEN name ELSE SubSeq(name, 1, SetMin(dots) - 1)

get_implicit_out(path, suffix) == with_suffix(strip_suffixes(path), suffix)

\* the body of the loop of get_implicit_out_files for task j (0-based)
implicit_out_at(params, j) ==
    IF Len(params.in_files) > 0
    THEN IF j + 1 > Len(params.in_files) THEN Raise("IndexError")
         ELSE get_implicit_out(PathName(params.in_files[j + 1]), params.out_files.suffix)
    ELSE get_implicit_out(str_int(j), params.out_files.suffix)

get_implicit_out_files(cluster_job) ==
    LET n == cluster_job.params.n_jobs
        r == [i \in 1..n |-> implicit_out_at(cluster_job.params, i - 1)]
        bad == { i \in 1..n : ~r[i].ok }
    IN  IF bad # {} THEN r[SetMin(bad)] ELSE Ok([i \in 1..n |-> r[i].v])

\* urlunparse(("file", "", str(path), "", "", "")): "file://" before the
\* path, which gets a leading "/" when it has none
file_url(path) ==
    <<"file:", "/", "/">> \o (IF path # <<>> /\ path[1] = "/" THEN path ELSE <<"/">> \o path)

get_input_output_dirs(job_params, ssh_remote_user, job_dir) ==
    IF job_params.in_staging \/ job_params.out_staging
    THEN LET staging_dir == <<"/", "staging", "/">> \o ssh_remote_user \o <<"/">> \o job_params.name
             input_dir == IF job_params.in_staging THEN PathJoin(staging_dir, INPUT_DIR) ELSE INPUT_DIR
             output_dir == IF job_params.out_staging THEN PathJoin(staging_dir, OUTPUT_DIR) ELSE OUTPUT_DIR
         IN  [staging_dir |-> Some(staging_dir),
              input_dir |-> input_dir,
              output_dir |-> output_dir,
              in_job_dir |-> IF job_params.in_staging THEN input_dir ELSE PathJoin(job_dir, INPUT_DIR),
              out_job_dir |-> IF job_params.out_staging THEN output_dir ELSE PathJoin(job_dir, OUTPUT_DIR)]
    ELSE [staging_dir |-> None,
          input_dir |-> INPUT_DIR,
          output_dir |-> OUTPUT_DIR,
          in_job_dir |-> PathJoin(job_dir, INPUT_DIR),
          out_job_dir |-> PathJoin(job_dir, OUTPUT_DIR)]

\* the per-task parameter map {k: params[k][j] for k in params}
params_at(params, j) ==
    IF ~params.present THEN None
    ELSE Some([k \in { params.items[i].k : i \in 1..Len(params.items) } |->
                 LET i == CHOOSE i \in 1..Len(params.items) : params.items[i].k = k
                 IN  params.items[i].v[j + 1]])

\* an index of task j (0-based) that is out of range in a sequence it reads
task_index_error(params, out_names, j) ==
    \/ Len(params.in_files) > 0 /\ j + 1 > Len(params.in_files)
    \/ j + 1 > Len(out_names)
    \/ params.params.present /\ \E i \in 1..Len(params.params.items) : j + 1 > Len(params.params.items[i].v)

\* task_args reading every sequence at index 0 instead of j
task_args_first(params, out_names, j) ==
    [in_files |-> IF Len(params.in_files) > 0 THEN Some(PathName(params.in_files[1])) ELSE None,
     out_files |-> Some(out_names[1]),
     params |-> params_at(params.params, 0)]

\* JobArgs(...) of task j (0-based) in the comprehension of get_runner_payload
task_args(params, out_names, j) ==
    [in_files |-> IF Len(params.in_files) > 0 THEN Some(PathName(params.in_files[j + 1])) ELSE None,
     out_files |-> Some(out_names[j + 1]),
     params |-> params_at(params.params, j)]

\* route_in_files filling the plain list whatever the flag
route_in_files_both(job, in_files, input_dir) ==
    [plain |-> [i \in 1..Len(in_files) |-> PathJoin(input_dir, PathName(in_files[i]))],
     staging |-> IF job.in_staging
                 THEN [i \in 1..Len(in_files) |-> file_url(PathJoin(input_dir, PathName(in_files[i])))]
                 ELSE <<>>]

\* the input manifests: the staging URLs or the plain paths, by in_staging
route_in_files(job, in_files, input_dir) ==
    IF job.in_staging
    THEN [plain |-> <<>>,
          staging |-> [i \in 1..Len(in_files) |-> file_url(PathJoin(input_dir, PathName(in_files[i])))]]
    ELSE [plain |-> [i \in 1..Len(in_files) |-> PathJoin(input_dir, PathName(in_files[i]))],
          staging |-> <<>>]

\* the output manifests: the staging URLs or the plain paths, by out_staging
route_out_files(job, out_names, output_dir) ==
    IF job.out_staging
    THEN [plain |-> <<>>,
          staging |-> [i \in 1..Len(out_names) |-> file_url(PathJoin(output_dir, PathName(out_names[i])))]]
    ELSE [plain |-> [i \in 1..Len(out_names) |-> PathJoin(output_dir, PathName(out_names[i]))],
          staging |-> <<>>]

\* get_runner_payload from line 83 on, outs being the outcome of resolving
\* the output names
expand_and_route(cluster_job, outs, input_dir, output_dir, job_dir) ==
    IF ~outs.ok THEN outs
    ELSE IF \E j \in 0..(cluster_job.params.n_jobs - 1) : task_index_error(cluster_job.params, outs.v, j)
    THEN Raise("IndexError")
    ELSE Ok([job |-> cluster_job.job,
             job_dir |-> job_dir,
             out_dir |-> output_dir,
             log_dir |-> LOG_DIR,
             params |-> [i \in 1..cluster_job.params.n_jobs |-> task_args(cluster_job.params, outs.v, i - 1)],
             in_files |-> route_in_files(cluster_job.job, cluster_job.params.in_files, input_dir).plain,
             out_files |-> route_out_files(cluster_job.job, outs.v, output_dir).plain,
             in_files_staging |-> route_in_files(cluster_job.job, cluster_job.params.in_files, input_dir).staging,
             out_files_staging |-> route_out_files(cluster_job.job, outs.v, output_dir).staging])

get_runner_payload(cluster_job, input_dir, output_dir, job_dir) ==
    expand_and_route(cluster_job,
                     IF cluster_job.params.out_files.kind = "implicit"
                     THEN get_implicit_out_files(cluster_job)
                     ELSE Ok(cluster_job.params.out_files.names),
                     input_dir, output_dir, job_dir)

\* cj.job.docker_image = f"{cj.job.docker_image}@{container_hash}"
pin_docker_image(cluster_job, container_hash) ==
    [cluster_job EXCEPT !.job.docker_image = @ \o <<"@">> \o container_hash]

\* get_submission_data returning a plan without tasks where
\* get_runner_payload raised
get_submission_data_partial(cluster_job, ssh_remote_user) ==
    LET job_dir == PathJoin(CLUSTER_DIR, cluster_job.job.name)
        dirs == get_input_output_dirs(cluster_job.job, ssh_remote_user, job_dir)
        payload == get_runner_payload(cluster_job, dirs.input_dir, dirs.output_dir, job_dir)
    IN  Ok([cj |-> cluster_job,
            payload |-> IF payload.ok THEN payload.v
                        ELSE [job |-> cluster_job.job, job_dir |-> job_dir, out_dir |-> dirs.output_dir,
                              log_dir |-> LOG_DIR, params |-> <<>>, in_files |-> <<>>, out_files |-> <<>>,
                              in_files_staging |-> <<>>, out_files_staging |-> <<>>],
            job_input_dir |-> dirs.in_job_dir,
            remote_dirs |-> <<job_dir, PathJoin(job_dir, LOG_DIR), dirs.in_job_dir, dirs.out_job_dir>>,
            staging_dir |-> dirs.staging_dir])

\* get_submission_data past the container-hash lookup, on the pinned job
get_submission_data(cluster_job, ssh_remote_user) ==
    LET job_dir == PathJoin(CLUSTER_DIR, cluster_job.job.name)
        dirs == get_input_output_dirs(cluster_job.job, ssh_remote_user, job_dir)
        payload == get_runner_payload(cluster_job, dirs.input_dir, dirs.output_dir, job_dir)
    IN  IF ~payload.ok THEN payload
        ELSE Ok([cj |-> cluster_job,
                 payload |-> payload.v,
                 job_input_dir |-> dirs.in_job_dir,
                 remote_dirs |-> <<job_dir, PathJoin(job_dir, LOG_DIR), dirs.in_job_dir, dirs.out_job_dir>>,
                 staging_dir |-> dirs.staging_dir])


(* ------------- validators_3_9_compat.py: RunnerPayload ---------------- *)

\* list[idx]: IndexError past the end (idx is 0-based)
list_get(l, idx) == IF idx + 1 > Len(l) THEN Raise("IndexError") ELSE Ok(l[idx + 1])

\* get_in_file reading the plain list whatever the flag
get_in_file_plain(self, idx) == list_get(self.in_files, idx)

get_in_file(self, idx) ==
    IF self.job.in_staging THEN list_get(self.in_files_staging, idx) ELSE list_get(self.in_files, idx)

get_out_file(self, idx) ==
    IF self.job.out_staging THEN list_get(self.out_files_staging, idx) ELSE list_get(self.out_files, idx)

payload_has_inputs(self) == (Len(self.in_files) > 0) \/ (Len(self.in_files_staging) > 0)

payload_has_outputs(self) == (Len(self.out_files) > 0) \/ (Len(self.out_files_staging) > 0)

(* ------- the plan on the wire: client.py send, parse_message ---------- *)

\* the values of a JSON document
JString(s) == [j |-> "string", s |-> s]

JNull == [j |-> "null"]

\* booleans [j |-> "bool", b], numbers [j |-> "number", n], arrays
\* [j |-> "array", a] and objects [j |-> "object", o] are written out

\* JobArgs.model_dump_json(): an Optional[Path] is null or str(path), the
\* Optional[dict] null or an object of the values
dump_JobArgs(a) ==
    [j |-> "object",
     o |-> [in_files |-> IF a.in_files.none THEN JNull ELSE JString(a.in_files.v),
            out_files |-> IF a.out_files.none THEN JNull ELSE JString(a.out_files.v),
            params |-> IF a.params.none THEN JNull
                       ELSE [j |-> "object",
                             o |-> [k \in DOMAIN a.params.v |-> [j |-> "number", n |-> a.params.v[k]]]]]]

dump_JobSettings(job) ==
    [j |-> "object",
     o |-> [name |-> JString(job.name),
            docker_image |-> JString(job.docker_image),
            classads |-> JString(job.classads),
            in_staging |-> [j |-> "bool", b |-> job.in_staging],
            out_staging |-> [j |-> "bool", b |-> job.out_staging]]]

\* a list[Path] or list[str] field: an array of strings
dump_str_list(l) == [j |-> "array", a |-> [i \in 1..Len(l) |-> JString(l[i])]]

\* RunnerPayload.model_dump_json(): every declared field, paths as strings
model_dump_json(payload) ==
    [j |-> "object",
     o |-> [job |-> dump_JobSettings(payload.job),
            job_dir |-> JString(payload.job_dir),
            out_dir |-> JString(payload.out_dir),
            log_dir |-> JString(payload.log_dir),
            params |-> [j |-> "array", a |-> [i \in 1..Len(payload.params) |-> dump_JobArgs(payload.params[i])]],
            in_files |-> dump_str_list(payload.in_files),
            out_files |-> dump_str_list(payload.out_files),
            in_files_staging |-> dump_str_list(payload.in_files_staging),
            out_files_staging |-> dump_str_list(payload.out_files_staging)]]

\* gzip.compress: the data inside a gzip member
gzip_compress(data) == [gzip |-> TRUE, data |-> data]

\* gzip.decompress: the data of a gzip member, BadGzipFile on anything else
gzip_decompress(raw) == IF raw.gzip THEN Ok(raw.data) ELSE Raise("BadGzipFile")

\* a run of separators is one separator
RECURSIVE collapse_slashes(_)
collapse_slashes(s) ==
    IF Len(s) < 2 THEN s
    ELSE IF s[1] = "/" /\ s[2] = "/" THEN collapse_slashes(Tail(s))
    ELSE <<s[1]>> \o collapse_slashes(Tail(s))

strip_trailing_slash(s) ==
    IF Len(s) > 1 /\ s[Len(s)] = "/" THEN SubSeq(s, 1, Len(s) - 1) ELSE s

\* pathlib: Path(s) of a string: runs of separators collapse (exactly two
\* leading ones are kept), a trailing separator goes, "" is "."
Path(s) ==
    IF s = <<>> THEN <<".">>
    ELSE IF Len(s) >= 2 /\ s[1] = "/" /\ s[2] = "/" /\ (Len(s) = 2 \/ s[3] # "/")
    THEN <<"/">> \o strip_trailing_slash(collapse_slashes(Tail(s)))
    ELSE strip_trailing_slash(collapse_slashes(s))

validate_path(v) == IF v.j = "string" THEN Ok(Path(v.s)) ELSE Raise("ValidationError")

validate_opt_path(v) ==
    IF v.j = "null" THEN Ok(None)
    ELSE IF v.j = "string" THEN Ok(Some(Path(v.s)))
    ELSE Raise("ValidationError")

\* Optional[dict]: the object's values as the JSON parser reads them
validate_opt_dict(v) ==
    IF v.j = "null" THEN Ok(None)
    ELSE IF v.j = "object" /\ \A k \in DOMAIN v.o : v.o[k].j = "number"
    THEN Ok(Some([k \in DOMAIN v.o |-> v.o[k].n]))
    ELSE Raise("ValidationError")

\* list[Path]
validate_path_list(v) ==
    IF v.j = "array" /\ \A i \in 1..Len(v.a) : v.a[i].j = "string"
    THEN Ok([i \in 1..Len(v.a) |-> Path(v.a[i].s)])
    ELSE Raise("ValidationError")

\* validate_str_list turning each entry into a Path
validate_str_list_as_paths(v) == validate_path_list(v)

\* list[str]
validate_str_list(v) ==
    IF v.j = "array" /\ \A i \in 1..Len(v.a) : v.a[i].j = "string"
    THEN Ok([i \in 1..Len(v.a) |-> v.a[i].s])
    ELSE Raise("ValidationError")

\* an object with exactly the declared fields (extra="forbid"; a field
\* model_dump_json always writes is taken as required)
is_object_of(v, fields) == v.j = "object" /\ DOMAIN v.o = fields

\* JobArgs of its three validated fields
JobArgs_of(in_files, out_files, params) ==
    IF ~in_files.ok \/ ~out_files.ok \/ ~params.ok THEN Raise("ValidationError")
    ELSE Ok([in_files |-> in_files.v, out_files |-> out_files.v, params |-> params.v])

validate_JobArgs(v) ==
    IF ~is_object_of(v, {"in_files", "out_files", "params"}) THEN Raise("ValidationError")
    ELSE JobArgs_of(validate_opt_path(v.o.in_files), validate_opt_path(v.o.out_files), validate_opt_dict(v.o.params))

\* a list of its validated entries
list_of(entries) ==
    IF \A i \in 1..Len(entries) : entries[i].ok
    THEN Ok([i \in 1..Len(entries) |-> entries[i].v])
    ELSE Raise("ValidationError")

\* list[JobArgs]
validate_JobArgs_list(v) ==
    IF v.j = "array" THEN list_of([i \in 1..Len(v.a) |-> validate_JobArgs(v.a[i])])
    ELSE Raise("ValidationError")

validate_JobSettings(v) ==
    IF ~is_object_of(v, {"name", "docker_image", "classads", "in_staging", "out_staging"})
    THEN Raise("ValidationError")
    ELSE IF \/ v.o.name.j # "string" \/ v.o.docker_image.j # "string" \/ v.o.classads.j # "string"
            \/ v.o.in_staging.j # "bool" \/ v.o.out_staging.j # "bool"
    THEN Raise("ValidationError")
    ELSE Ok([name |-> v.o.name.s, docker_image |-> v.o.docker_image.s, classads |-> v.o.classads.s,
             in_staging |-> v.o.in_staging.b, out_staging |-> v.o.out_staging.b])

RunnerPayloadFields ==
    {"job", "job_dir", "out_dir", "log_dir", "params",
     "in_files", "out_files", "in_files_staging", "out_files_staging"}

\* the fields of a RunnerPayload document, each validated by its type
validate_fields(o) ==
    [job |-> validate_JobSettings(o.job),
     job_dir |-> validate_path(o.job_dir),
     out_dir |-> validate_path(o.out_dir),
     log_dir |-> validate_path(o.log_dir),
     params |-> validate_JobArgs_list(o.params),
     in_files |-> validate_path_list(o.in_files),
     out_files |-> validate_path_list(o.out_files),
     in_files_staging |-> validate_str_list(o.in_files_staging),
     out_files_staging |-> validate_str_list(o.out_files_staging)]

\* RunnerPayload of its validated fields
RunnerPayload_of(fields) ==
    IF \E f \in RunnerPayloadFields : ~fields[f].ok THEN Raise("ValidationError")
    ELSE Ok([f \in RunnerPayloadFields |-> fields[f].v])

\* RunnerPayload.model_validate_json(message)
model_validate_json(message) ==
    IF ~message.json \/ ~is_object_of(message.doc, RunnerPayloadFields) THEN Raise("ValidationError")
    ELSE RunnerPayload_of(validate_fields(message.doc.o))

\* send(): gzip.compress(runner_payload.model_dump_json().encode()), the
\* bytes being those of a JSON text
request_of(runner_payload) == gzip_compress([json |-> TRUE, doc |-> model_dump_json(runner_payload)])

\* parse_message: the payload, or None when the request is not gzipped or
\* does not validate
parse_decompressed(message) ==
    IF ~message.ok THEN None
    ELSE IF ~model_validate_json(message.v).ok THEN None
    ELSE Some(model_validate_json(message.v).v)

parse_message(raw_message) == parse_decompressed(gzip_decompress(raw_message))

(* ------------- job_submit/ssh.py and copy_files_prep_dirs ------------- *)

\* pathlib: PurePath.parent; "." for a bare relative name
PathParent(p) ==
    LET seps == { i \in 1..Len(p) : p[i] = "/" }
    IN  IF seps = {} THEN <<".">>
        ELSE IF SetMax(seps) = 1 THEN <<"/">>
        ELSE SubSeq(p, 1, SetMax(seps) - 1)

\* the calls copy_files_prep_dirs makes on its sftp client are records of
\* the operation, its path, and the source or the data it puts there
MkdirCall(path) == [op |-> "mkdir", path |-> path, src |-> <<>>, data |-> JNull]

\* the loop over the tasks from task j (0-based) on: a copy for each task
\* that has an input, while the job has inputs
RECURSIVE copy_calls(_, _)
copy_calls(sub, j) ==
    IF j + 1 > Len(sub.payload.params) THEN <<>>
    ELSE IF ~sub.payload.params[j + 1].in_files.none /\ sub.cj.params.in_files # <<>>
    THEN <<[op |-> "copy_file", path |-> PathJoin(sub.job_input_dir, sub.payload.params[j + 1].in_files.v),
            src |-> sub.cj.params.in_files[j + 1], data |-> JNull]>>
         \o copy_calls(sub, j + 1)
    ELSE copy_calls(sub, j + 1)

\* the body of copy_files_prep_dirs with params.json written ahead of the
\* directories
prep_calls_write_first(sub) ==
    <<[op |-> "write_file", path |-> PathJoin(sub.payload.job_dir, <<"params", ".", "json">>),
         src |-> <<>>, data |-> model_dump_json(sub.payload)]>>
    \o (IF sub.staging_dir.none THEN <<>> ELSE <<MkdirCall(sub.staging_dir.v)>>)
    \o [i \in 1..Len(sub.remote_dirs) |-> MkdirCall(sub.remote_dirs[i])]
    \o copy_calls(sub, 0)

\* the body of copy_files_prep_dirs inside "with client.open_sftp()": the
\* calls in program order
prep_calls(sub) ==
    (IF sub.staging_dir.none THEN <<>> ELSE <<MkdirCall(sub.staging_dir.v)>>)
    \o [i \in 1..Len(sub.remote_dirs) |-> MkdirCall(sub.remote_dirs[i])]
    \o <<[op |-> "write_file", path |-> PathJoin(sub.payload.job_dir, <<"params", ".", "json">>),
         src |-> <<>>, data |-> model_dump_json(sub.payload)]>>
    \o copy_calls(sub, 0)

\* mkdir_sftp on a host holding the paths of fs: an Exception when stat
\* finds the path or mkdir misses its parent
mkdir_sftp(fs, path) ==
    IF path \in fs THEN Raise("Exception")
    ELSE IF PathParent(path) \notin fs THEN Raise("Exception")
    ELSE Ok(fs \cup {path})

\* write_file_sftp: open(dest, "w") needs the directory of dest
write_file_sftp(fs, dest) ==
    IF PathParent(dest) \notin fs THEN Raise("FileNotFoundError") ELSE Ok(fs \cup {dest})

\* copy_file_sftp: put(source, dest) needs the local file and the
\* directory of dest
copy_file_sftp(fs, missing, source, dest) ==
    IF source \in missing \/ PathParent(dest) \notin fs THEN Raise("FileNotFoundError")
    ELSE Ok(fs \cup {dest})

sftp_call(fs, missing, c) ==
    CASE c.op = "mkdir" -> mkdir_sftp(fs, c.path)
      [] c.op = "write_file" -> write_file_sftp(fs, c.path)
      [] OTHER -> copy_file_sftp(fs, missing, c.src, c.path)

\* the calls run in order on the host until one raises: the host as it is
\* left, the calls that went through, and the exception if any
RECURSIVE run_sftp(_, _, _, _)
RECURSIVE after_sftp_call(_, _, _, _, _)
after_sftp_call(calls, fs, missing, log, r) ==
    IF ~r.ok THEN [fs |-> fs, log |-> log, exc |-> r.exc]
    ELSE run_sftp(Tail(calls), r.v, missing, Append(log, Head(calls)))

run_sftp(calls, fs, missing, log) ==
    IF calls = <<>> THEN [fs |-> fs, log |-> log, exc |-> "none"]
    ELSE after_sftp_call(calls, fs, missing, log, sftp_call(fs, missing, Head(calls)))

\* print_mkdir, print_write_file, print_copy_file: one stderr line a call
print_call(c) ==
    CASE c.op = "mkdir" -> [stream |-> "stderr", line |-> <<"mkdir", " ">> \o c.path, json |-> JNull]
      [] c.op = "write_file" -> [stream |-> "stderr", line |-> <<"write", " ">> \o c.path, json |-> JNull]
      [] OTHER -> [stream |-> "stderr", line |-> <<"copy", " ">> \o c.src \o <<" ", "->", " ">> \o c.path, json |-> JNull]

print_calls(calls) == [i \in 1..Len(calls) |-> print_call(calls[i])]

\* the working directory of the sftp session and the parents of the job
\* and staging directories
HostDirs(sub) ==
    { <<".">>, PathParent(sub.remote_dirs[1]) }
    \cup (IF sub.staging_dir.none THEN {} ELSE { PathParent(sub.staging_dir.v) })

\* what the host can hold when the session opens: the parents only, the job
\* directory of an earlier run, its staging directory, or no cluster
\* directory yet
RemoteHosts(sub) ==
    { HostDirs(sub), HostDirs(sub) \cup { sub.remote_dirs[1] }, HostDirs(sub) \ { PathParent(sub.remote_dirs[1]) } }
    \cup (IF sub.staging_dir.none THEN {} ELSE { HostDirs(sub) \cup { sub.staging_dir.v } })

\* the sessions a run can meet: each host with every local input file in
\* place, and the plain host with one local input file gone
Sessions(sub) ==
    { [fs |-> h, missing |-> {}] : h \in RemoteHosts(sub) }
    \cup { [fs |-> HostDirs(sub), missing |-> { sub.cj.params.in_files[i] }] : i \in 1..Len(sub.cj.params.in_files) }

\* the flags main hands to run_cluster_job: parse_args refuses --test-local
\* and --one-job without --dry-run
ArgSets ==
    { [dry_run |-> d, test_local |-> t, one_job |-> o] : d \in BOOLEAN, t \in BOOLEAN, o \in BOOLEAN }
    \ { a \in [dry_run : {FALSE}, test_local : BOOLEAN, one_job : BOOLEAN] : a.test_local \/ a.one_job }

(* ------------------- job_exec/__main__.py ----------------------------- *)

\* getattr on a pydantic model: only declared fields are attributes
\* (extra="forbid"), anything else raises AttributeError
HasAttr(obj, name) == name \in DOMAIN obj

\* str(Optional[Path])
str_opt(v) == IF v.none THEN <<"None">> ELSE v.v

\* the requirements expression: classads, ANDed with the staging predicate
\* when a staging flag is set
requirements(job) ==
    IF job.in_staging \/ job.out_staging
    THEN IF job.classads # <<>>
         THEN <<"(">> \o job.classads \o <<")", "&&", "(Target.HasCHTCStaging == true)">>
         ELSE <<"(Target.HasCHTCStaging == true)">>
    ELSE job.classads

\* the directive map: the base directives, requirements, and the transfer
\* directives of each axis the payload has files for
directives(payload) ==
    LET base == [k \in {"universe", "initialdir", "JobBatchName", "docker_image", "arguments", "output", "error", "log"} |->
                   CASE k = "universe" -> <<"docker">>
                     [] k = "initialdir" -> <<"~", "/">> \o payload.job_dir
                     [] k = "JobBatchName" -> payload.job.name
                     [] k = "docker_image" -> payload.job.docker_image
                     [] k = "arguments" -> <<"entrypoint", " ", "$(job_json)">>
                     [] k = "output" -> payload.log_dir \o <<"/", "out", "/", "$(Process)", ".", "log">>
                     [] k = "error" -> payload.log_dir \o <<"/", "err", "/", "$(Process)", ".", "log">>
                     [] OTHER -> payload.log_dir \o <<"/", "cluster", ".", "log">>]
        req == IF requirements(payload.job) # <<>>
               THEN ("requirements" :> requirements(payload.job)) ELSE <<>>
        ins == IF payload_has_inputs(payload)
               THEN ("transfer_input_files" :> <<"$(in_file)">>) ELSE <<>>
        outs == IF payload_has_outputs(payload)
                THEN ("should_transfer_files" :> <<"YES">>)
                     @@ ("when_to_transfer_output" :> <<"ON_EXIT">>)
                     @@ ("transfer_output_files" :> <<"$(job_out_file)">>)
                     @@ ("transfer_output_remaps" :> <<"\"", "$(job_out_file)", " = ", "$(out_file)", "\"">>)
                ELSE <<>>
    IN  outs @@ ins @@ req @@ base

\* the itemdata row of task j (0-based): job_json, then the transfer
\* variables of each axis the payload has files for
itemdata_row(payload, j) ==
    LET json == ("job_json" :> <<payload.params[j + 1]>>)
        ins == IF payload_has_inputs(payload)
               THEN ("in_file" :> get_in_file(payload, j).v) ELSE <<>>
        outs == IF payload_has_outputs(payload)
                THEN ("job_out_file" :> str_opt(payload.params[j + 1].out_files))
                     @@ ("out_file" :> get_out_file(payload, j).v)
                ELSE <<>>
    IN  outs @@ ins @@ json

make_submission(payload) ==
    IF ~HasAttr(payload.job, "additional_args") THEN Raise("AttributeError")
    ELSE LET n == Len(payload.params)
             in_err == payload_has_inputs(payload) /\ \E j \in 0..(n - 1) : ~get_in_file(payload, j).ok
             out_err == payload_has_outputs(payload) /\ \E j \in 0..(n - 1) : ~get_out_file(payload, j).ok
         IN  IF in_err \/ out_err THEN Raise("IndexError")
             ELSE Ok([sub |-> directives(payload),
                      itemdata |-> [i \in 1..n |-> itemdata_row(payload, i - 1)]])

(* --------------- job_exec/db.py and serve_forever --------------------- *)

\* the cluster ids of the rows of table tbl
keys_of(rows, tbl) == { rows[i].cluster_id : i \in { k \in 1..Len(rows) : rows[k].tbl = tbl } }

\* the statements of write_submission_data on the transaction t, its rows
\* and the exception that ended it; the two UPDATEs set cluster_id to the
\* value it has and change no row.
\* INSERT INTO job_classads: cluster_id is the primary key
insert_job_classads(t, cluster_id) ==
    IF t.exc # "none" THEN t
    ELSE IF cluster_id \in keys_of(t.rows, "job_classads") THEN [t EXCEPT !.exc = "IntegrityError"]
    ELSE [t EXCEPT !.rows = Append(@, [tbl |-> "job_classads", cluster_id |-> cluster_id,
                                       name |-> <<>>, num_procs |-> 0, task |-> JNull])]

\* INSERT INTO jobs: cluster_id is the primary key and refers to job_classads
insert_jobs(t, cluster_id, m) ==
    IF t.exc # "none" THEN t
    ELSE IF cluster_id \in keys_of(t.rows, "jobs") \/ cluster_id \notin keys_of(t.rows, "job_classads")
    THEN [t EXCEPT !.exc = "IntegrityError"]
    ELSE [t EXCEPT !.rows = Append(@, [tbl |-> "jobs", cluster_id |-> cluster_id,
                                       name |-> m.job.name, num_procs |-> Len(m.params), task |-> JNull])]

\* executemany INSERT INTO procs, a row a task: procs[0] of a plan without
\* tasks is an IndexError; cluster_id refers to job_classads
insert_procs(t, cluster_id, m) ==
    IF t.exc # "none" THEN t
    ELSE IF m.params = <<>> THEN [t EXCEPT !.exc = "IndexError"]
    ELSE IF cluster_id \notin keys_of(t.rows, "job_classads") THEN [t EXCEPT !.exc = "IntegrityError"]
    ELSE [t EXCEPT !.rows = @ \o [i \in 1..Len(m.params) |->
                                    [tbl |-> "procs", cluster_id |-> cluster_id, name |-> <<>>,
                                     num_procs |-> 0, task |-> dump_JobArgs(m.params[i])]]]

\* "with con" leaving the rows of a failed transaction in place
with_con_no_rollback(con, t) == t

\* "with con": the transaction is committed, or on an exception rolled back
\* to the rows con held
with_con(con, t) == IF t.exc = "none" THEN t ELSE [t EXCEPT !.rows = con]

\* except sqlite3.IntegrityError: logged, and the call returns
except_IntegrityError(t) ==
    IF t.exc = "IntegrityError" THEN [rows |-> t.rows, exc |-> "none", logged |-> <<"IntegrityError">>]
    ELSE [rows |-> t.rows, exc |-> t.exc, logged |-> <<>>]

\* write_submission_data on the rows of con: the rows it leaves, the
\* exception it raises if any, and what it logged
write_submission_data(con, cluster_id, m) ==
    except_IntegrityError(
        with_con(con, insert_procs(insert_jobs(insert_job_classads([rows |-> con, exc |-> "none"], cluster_id),
                                               cluster_id, m),
                                   cluster_id, m)))

\* the cluster ids a scheduler hands out
ClusterIds == {1, 2}

\* what lines 170-175 can yield: Submit(), issue_credentials() or Schedd()
\* raising, schedd.submit raising, or a result with its cluster id
SubmitResults ==
    { [built |-> TRUE, ok |-> TRUE, v |-> c, exc |-> "none"] : c \in ClusterIds }
    \cup { [built |-> b, ok |-> FALSE, v |-> 0, exc |-> "HTCondorException"] : b \in BOOLEAN }

\* lines 169-179 of serve_forever without --dry-run: the submission is
\* built outside the try block, so an exception there ends the loop; in the
\* try block schedd.submit gets every row of the itemdata, then the db is
\* written, and an exception of either is logged
submit_and_record(srv, m, compiled, submit_result) ==
    IF ~submit_result.built
    THEN [srv EXCEPT !.running = FALSE]
    ELSE IF ~submit_result.ok
    THEN [srv EXCEPT !.schedd = Append(@, [sub |-> compiled.sub, itemdata |-> compiled.itemdata, ok |-> FALSE]),
                     !.events = Append(@, "submit"),
                     !.logged = Append(@, submit_result.exc)]
    ELSE LET w == write_submission_data(srv.db, submit_result.v, m)
         IN  [srv EXCEPT !.schedd = Append(@, [sub |-> compiled.sub, itemdata |-> compiled.itemdata, ok |-> TRUE]),
                         !.events = @ \o <<"submit", "write_submission_data">>,
                         !.db = w.rows,
                         !.logged = @ \o w.logged \o (IF w.exc = "none" THEN <<>> ELSE <<w.exc>>)]

\* handle_plan going on to the submission after make_submission raised
handle_plan_no_continue(srv, m, r, submit_result) ==
    IF srv.dry_run THEN srv
    ELSE submit_and_record(srv, m, IF r.ok THEN r.v ELSE [sub |-> <<>>, itemdata |-> <<>>], submit_result)

\* handle_plan letting the exception of make_submission out of the loop
handle_plan_no_except(srv, m, r, submit_result) ==
    IF ~r.ok THEN [srv EXCEPT !.running = FALSE]
    ELSE IF srv.dry_run THEN srv
    ELSE submit_and_record(srv, m, r.v, submit_result)

\* serve_forever past the reply, r being what make_submission(m) yielded:
\* an exception is logged and the loop continues with the next request
handle_plan(srv, m, r, submit_result) ==
    IF ~r.ok THEN [srv EXCEPT !.logged = Append(@, r.exc)]
    ELSE IF srv.dry_run THEN srv
    ELSE submit_and_record(srv, m, r.v, submit_result)

\* a turn of the loop that replies once the plan is handled, and to plans
\* only
serve_parsed_reply_last(srv, m, submit_result) ==
    IF m.none
    THEN [srv EXCEPT !.events = Append(@, "recv"), !.parsed = None]
    ELSE [handle_plan([srv EXCEPT !.events = @ \o <<"recv", "make_submission">>, !.parsed = m],
                      m.v, make_submission(m.v), submit_result)
            EXCEPT !.replies = Append(@, "ack"), !.events = Append(@, "send")]

\* one turn of the loop of serve_forever on a request that parsed to m: the
\* request is received, the reply sent, and a plan handled
serve_parsed(srv, m, submit_result) ==
    IF m.none
    THEN [srv EXCEPT !.replies = Append(@, "ack"), !.events = @ \o <<"recv", "send">>, !.parsed = None]
    ELSE handle_plan([srv EXCEPT !.replies = Append(@, "ack"),
                                 !.events = @ \o <<"recv", "send", "make_submission">>,
                                 !.parsed = m],
                     m.v, make_submission(m.v), submit_result)

\* what make_submission yielded for the parsed plan m, as the log shows it
submission_of(r) ==
    IF r.ok THEN [status |-> "compiled", sub |-> r.v.sub, itemdata |-> r.v.itemdata]
    ELSE [status |-> "raised", exc |-> r.exc]

\* send_submission_data without its early return
send_target_no_early_return(dry_run, test_local) ==
    IF test_local THEN Some("local") ELSE Some("remote")

\* send_submission_data: the server the plan goes to, if any
send_target(dry_run, test_local) ==
    IF dry_run /\ ~test_local THEN None
    ELSE IF test_local THEN Some("local")
    ELSE Some("remote")

(* ------- validators_3_9_compat.py: SIZE_PAT and contains_units -------- *)

\* [0-9]
DecimalDigits == { "0", "1", "2", "3", "4", "5", "6", "7", "8", "9" }

\* (K|M|G|T)
SizeUnits == { "K", "M", "G", "T" }

\* the length of the run of [0-9] that v starts with
RECURSIVE leading_digits(_)
leading_digits(v) ==
    IF v = <<>> \/ v[1] \notin DecimalDigits THEN 0 ELSE 1 + leading_digits(Tail(v))

\* SIZE_PAT.match(v): the end of the match of [0-9]+(K|M|G|T)(B)? that
\* starts at v's first character, if there is one; re.match anchors the
\* pattern at the start of v only
SIZE_PAT_match(v) ==
    LET n == leading_digits(v)
    IN  IF n = 0 \/ Len(v) < n + 1 THEN None
        ELSE IF v[n + 1] \notin SizeUnits THEN None
        ELSE IF Len(v) >= n + 2 /\ v[n + 2] = "B" THEN Some(n + 2)
        ELSE Some(n + 1)

\* the field validator of disk and memory
contains_units(v) ==
    IF v # <<>> /\ v[1] = "-" THEN Raise("AssertionError")
    ELSE IF SIZE_PAT_match(v).none THEN Raise("AssertionError")
    ELSE Ok(v)

\* JobSettings(...) as far as memory and disk decide it
JobSettings_memory_disk(memory, disk) ==
    IF ~contains_units(memory).ok \/ ~contains_units(disk).ok THEN Raise("ValidationError")
    ELSE Ok([memory |-> memory, disk |-> disk])

(* ----------------- job_submit/yaml.py: !range and !glob --------------- *)

\* the numbers of a YAML sequence, in halves: h stands for the value h/2;
\* an int has an even h, a float any
YamlInt(n) == [t |-> "int", h |-> 2 * n]

YamlFloat(h) == [t |-> "float", h |-> h]

\* the least integer not below a/b, for b > 0
ceil_div(a, b) == -((-a) \div b)

\* len(np.arange(start, stop, step)): ceil((stop - start) / step), 0 at least
arange_len(start, stop, step) ==
    IF step.h > 0 THEN ceil_div(stop.h - start.h, step.h)
    ELSE ceil_div(start.h - stop.h, -step.h)

\* np.arange(start, stop, step).tolist(): ints when every argument is one
np_arange(start, stop, step) ==
    IF step.h = 0 THEN Raise("ZeroDivisionError")
    ELSE Ok([i \in 1..arange_len(start, stop, step) |->
               [t |-> IF {start.t, stop.t, step.t} = {"int"} THEN "int" ELSE "float",
                h |-> start.h + (i - 1) * step.h]])

yaml_range(params) ==
    CASE Len(params) = 1 -> np_arange(YamlInt(0), params[1], YamlInt(1))
      [] Len(params) = 2 -> np_arange(params[1], params[2], YamlInt(1))
      [] Len(params) = 3 -> np_arange(params[1], params[2], params[3])
      [] OTHER -> Raise("ValueError")

\* int(v) of a run of decimal digits
RECURSIVE int_of(_)
int_of(v) ==
    IF v = <<>> THEN 0
    ELSE 10 * int_of(SubSeq(v, 1, Len(v) - 1))
         + (CHOOSE d \in 0..9 : Digit(d) = v[Len(v)])

\* parse_num, a token of a key: int(v) where v is a run of digits; float(v)
\* takes none of the other strings a file name over the characters drawn
\* splits into, and those stay strings
parse_num(v) ==
    IF v # <<>> /\ \A i \in 1..Len(v) : v[i] \in DecimalDigits
    THEN [t |-> "int", n |-> int_of(v), s |-> <<>>]
    ELSE [t |-> "str", n |-> 0, s |-> v]

\* re.split(r"[-_:.]", name): the pieces between the split characters, the
\* empty ones too
RECURSIVE re_split(_, _)
re_split(name, piece) ==
    IF name = <<>> THEN <<piece>>
    ELSE IF name[1] \in { "-", "_", ":", "." } THEN <<piece>> \o re_split(Tail(name), <<>>)
    ELSE re_split(Tail(name), Append(piece, name[1]))

file_sorter(path) ==
    LET keys == re_split(PathName(path), <<>>)
    IN  [i \in 1..Len(keys) |-> parse_num(keys[i])]

\* ord(c) of the characters drawn
CodePoint(c) ==
    CASE c \in DecimalDigits -> 48 + (CHOOSE d \in 0..9 : Digit(d) = c)
      [] c = "/" -> 47
      [] c = "_" -> 95
      [] c = "a" -> 97
      [] c = "d" -> 100
      [] c = "f" -> 102
      [] c = "t" -> 116
      [] OTHER -> 120

\* str < str: by the first differing code point, a proper prefix first
str_lt(a, b) ==
    LET diff == { i \in 1..Len(a) : i <= Len(b) /\ a[i] # b[i] }
    IN  IF diff = {} THEN Len(a) < Len(b)
        ELSE CodePoint(a[SetMin(diff)]) < CodePoint(b[SetMin(diff)])

\* a < b of two tokens: int against str is a TypeError
token_lt(a, b) ==
    IF a.t # b.t THEN Raise("TypeError")
    ELSE IF a.t = "int" THEN Ok(a.n < b.n)
    ELSE Ok(str_lt(a.s, b.s))

\* tuple < tuple: the first pair of unequal items decides, a proper prefix
\* is smaller
tuple_lt(a, b) ==
    LET diff == { i \in 1..Len(a) : i <= Len(b) /\ a[i] # b[i] }
    IN  IF diff = {} THEN Ok(Len(a) < Len(b))
        ELSE token_lt(a[SetMin(diff)], b[SetMin(diff)])

\* x put into the sorted list l behind every item that is not greater
RECURSIVE insort(_, _)
insort(l, x) ==
    IF l = <<>> THEN <<x>>
    ELSE IF tuple_lt(file_sorter(x), file_sorter(l[1])).v THEN <<x>> \o l
    ELSE <<l[1]>> \o insort(Tail(l), x)

RECURSIVE stable_sort(_)
stable_sort(l) ==
    IF l = <<>> THEN <<>> ELSE insort(stable_sort(SubSeq(l, 1, Len(l) - 1)), l[Len(l)])

\* sorted(files, key=file_sorter): a stable sort; two keys the sort compares
\* and cannot order are a TypeError (over the lists drawn the sort compares
\* every such pair)
sorted_by_file_sorter(files) ==
    IF \E i \in 1..Len(files), k \in 1..Len(files) : ~tuple_lt(file_sorter(files[i]), file_sorter(files[k])).ok
    THEN Raise("TypeError")
    ELSE Ok(stable_sort(files))

\* yaml_glob past dir.glob, which matched the files in this order
yaml_glob(matched) ==
    IF ~sorted_by_file_sorter(matched).ok THEN sorted_by_file_sorter(matched)
    ELSE IF Len(sorted_by_file_sorter(matched).v) = 0 THEN Raise("AssertionError")
    ELSE sorted_by_file_sorter(matched)

(* ------------------------- the state machine -------------------------- *)

NoJob == [none |-> TRUE]

NoError == [exc |-> "none"]

NoSubmissionData == [none |-> TRUE]

NoSubmission == [status |-> "none"]

\* the arguments of run_cluster_job before the run branches on them
NoArgs == [none |-> TRUE]

\* the submit host before the sftp session opens
NoSession == [opened |-> FALSE, before |-> {}, fs |-> {}, log |-> <<>>]

\* an execution server that has served no request
IdleServer ==
    [dry_run |-> FALSE, running |-> TRUE, replies |-> <<>>, events |-> <<>>, schedd |-> <<>>, db |-> <<>>,
     logged |-> <<>>, parsed |-> None]

\* no function under evaluation; tag_ret is None until one returned
NoCall == [fn |-> "none"]

\* what the GitHub lookup of get_most_recent_container_hash can yield: the
\* newest version's name, or an HTTP error
ContainerHashes == { Ok(<<"sha256:1">>), Raise("HTTPError") }

InFileLists == SeqsUpTo(InPaths, MaxLen)

OutFilesDocs ==
    { [kind |-> "list", names |-> l] : l \in SeqsUpTo(OutPaths, MaxLen) }
    \cup { [kind |-> "implicit", suffix |-> x] : x \in Suffixes }

ParamsDocs ==
    { NoParams } \cup
    UNION { { ParamsOf(keys, lens) : lens \in [1..Len(keys) -> 0..MaxLen] } : keys \in KeyOrders }

Init ==
    /\ pc = "start"
    /\ doc = [none |-> TRUE]
    /\ cj = NoJob
    /\ err = NoError
    /\ sub_data = NoSubmissionData
    /\ submission = NoSubmission
    /\ args = NoArgs
    /\ remote = NoSession
    /\ printed = <<>>
    /\ wire = None
    /\ server = IdleServer
    /\ tag_call = NoCall
    /\ tag_ret = None

\* load_job_yaml: the document is parsed and ClusterJob constructed from it
load_job_yaml ==
    /\ pc = "start"
    /\ \E in_files \in InFileLists, out_files \in OutFilesDocs, params \in ParamsDocs, in_staging \in BOOLEAN, out_staging \in BOOLEAN :
          LET r == ClusterJob(in_files, out_files, params, in_staging, out_staging)
          IN  /\ doc' = [in_files |-> in_files, out_files |-> out_files, params |-> params,
                         in_staging |-> in_staging, out_staging |-> out_staging]
              /\ IF r.ok
                 THEN pc' = "loaded" /\ cj' = r.v /\ err' = NoError
                 ELSE pc' = "load_failed" /\ cj' = NoJob /\ err' = r.exc
    /\ UNCHANGED <<sub_data, submission, args, remote, printed, wire, server, tag_call, tag_ret>>

\* run_cluster_job's call of get_submission_data on the loaded job
compile_submission_data ==
    /\ pc = "loaded"
    /\ \E h \in ContainerHashes :
          IF ~h.ok
          THEN pc' = "compile_failed" /\ err' = [exc |-> h.exc] /\ UNCHANGED <<cj, sub_data>>
          ELSE LET pinned == pin_docker_image(cj, h.v)
                   r == get_submission_data(pinned, SshRemoteUser)
               IN  /\ cj' = pinned
                   /\ IF r.ok
                      THEN pc' = "compiled" /\ sub_data' = r.v /\ err' = NoError
                      ELSE pc' = "compile_failed" /\ sub_data' = NoSubmissionData /\ err' = [exc |-> r.exc]
    /\ UNCHANGED <<doc, submission, args, remote, printed, wire, server, tag_call, tag_ret>>

\* the "copied" lines stdout gets, one after each copy
copied_lines(copies) ==
    [i \in 1..Len(copies) |-> [stream |-> "stdout", line |-> <<"copied", " ">> \o copies[i].src, json |-> JNull]]

\* the sftp session of copy_files_prep_dirs as it ended with outcome r
sftp_session_ends(before, r) ==
    /\ remote' = [opened |-> TRUE, before |-> before, fs |-> r.fs, log |-> r.log]
    /\ printed' = printed \o copied_lines(SelectSeq(r.log, LAMBDA c : c.op = "copy_file"))
    /\ pc' = IF r.exc = "none" THEN "prepared" ELSE "prep_failed"
    /\ err' = IF r.exc = "none" THEN err ELSE [exc |-> r.exc]

\* run_cluster_job's call of copy_files_prep_dirs, on the branch its dry_run
\* argument selects (the arguments are drawn here, where the run first
\* branches on them): the stand-ins print each call; the sftp session makes
\* the calls on the host until one raises
copy_files_prep_dirs ==
    /\ pc = "compiled"
    /\ \E a \in ArgSets :
          /\ args' = a
          /\ IF a.dry_run
             THEN /\ printed' = printed \o print_calls(prep_calls(sub_data))
                  /\ pc' = "prepared"
                  /\ UNCHANGED <<remote, err>>
             ELSE \E connected \in BOOLEAN, session \in Sessions(sub_data) :
                     IF ~connected
                     THEN pc' = "prep_failed" /\ err' = [exc |-> "SSHException"] /\ UNCHANGED <<remote, printed>>
                     ELSE sftp_session_ends(session.fs, run_sftp(prep_calls(sub_data), session.fs, session.missing, <<>>))
    /\ UNCHANGED <<doc, cj, sub_data, submission, wire, server, tag_call, tag_ret>>

\* run_cluster_job's call of send_submission_data: test_local counts in a
\* dry run only; the request goes out, or nothing is sent
send_submission_data ==
    /\ pc = "prepared"
    /\ LET target == send_target(args.dry_run, args.dry_run /\ args.test_local)
       IN  IF target.none
           THEN pc' = "unsent" /\ wire' = wire
           ELSE pc' = "sent" /\ wire' = Some([to |-> target.v, request |-> request_of(sub_data.payload)])
    /\ UNCHANGED <<doc, cj, err, sub_data, submission, args, remote, printed, server, tag_call, tag_ret>>

\* the server after the turn on the parsed request m
served(m, server_dry_run, submit_result) ==
    /\ server' = serve_parsed([server EXCEPT !.dry_run = server_dry_run], m, submit_result)
    /\ submission' = IF m.none THEN submission ELSE submission_of(make_submission(m.v))

\* one turn of serve_forever on the request in flight, on a server started
\* with or without --dry-run (drawn at its first turn)
serve_forever ==
    /\ pc = "sent"
    /\ server.running
    /\ \E server_dry_run \in (IF server.events = <<>> THEN BOOLEAN ELSE {server.dry_run}),
          submit_result \in SubmitResults :
          served(parse_message(wire.v.request), server_dry_run, submit_result)
    /\ wire' = None
    /\ pc' = "served"
    /\ UNCHANGED <<doc, cj, err, sub_data, args, remote, printed, tag_call, tag_ret>>

\* send() gets its reply and run_cluster_job ends: a dry run prints the
\* first task with one_job, the whole plan without
run_cluster_job_return ==
    /\ pc \in {"unsent", "served"}
    /\ pc = "served" => (server.replies # <<>> /\ server.replies[Len(server.replies)] = "ack")
    /\ IF ~args.dry_run
       THEN pc' = "done" /\ UNCHANGED <<printed, err>>
       ELSE IF ~args.one_job
       THEN /\ pc' = "done"
            /\ printed' = Append(printed, [stream |-> "stdout", line |-> <<>>, json |-> model_dump_json(sub_data.payload)])
            /\ err' = err
       ELSE IF sub_data.payload.params = <<>>
       THEN pc' = "print_failed" /\ err' = [exc |-> "IndexError"] /\ printed' = printed
       ELSE /\ pc' = "done"
            /\ printed' = Append(printed, [stream |-> "stdout", line |-> <<>>, json |-> dump_JobArgs(sub_data.payload.params[1])])
            /\ err' = err
    /\ UNCHANGED <<doc, cj, sub_data, submission, args, remote, wire, server, tag_call, tag_ret>>

\* the plans the clients of a server compile: jobs of up to MaxLen tasks with
\* an input and a parameter a task, with and without input staging
ClientPlans ==
    { sd.v.payload : sd \in
        { sd \in { get_submission_data(pin_docker_image(r.v, <<"sha256:1">>), SshRemoteUser) : r \in
                     { r \in { ClusterJob([k \in 1..n |-> <<"a", ".", "c">>], [kind |-> "implicit", suffix |-> <<".", "x">>],
                                          ParamsOf(<<"x">>, <<n>>), st, FALSE) : n \in 0..MaxLen, st \in BOOLEAN }
                         : r.ok } }
            : sd.ok } }

\* what reaches the socket of a server: the plans, bytes that are no gzip
\* member, a gzip member that is no JSON text, a JSON text that is no plan
Requests ==
    { request_of(p) : p \in ClientPlans }
    \cup { [gzip |-> FALSE, data |-> [json |-> FALSE, doc |-> JNull]],
           gzip_compress([json |-> FALSE, doc |-> JNull]),
           gzip_compress([json |-> TRUE, doc |-> JString(<<"x">>)]) }

\* a server listens on its socket
ServeInit ==
    /\ pc = "listening"
    /\ doc = [none |-> TRUE]
    /\ cj = NoJob
    /\ err = NoError
    /\ sub_data = NoSubmissionData
    /\ submission = NoSubmission
    /\ args = NoArgs
    /\ remote = NoSession
    /\ printed = <<>>
    /\ wire = None
    /\ server = IdleServer
    /\ tag_call = NoCall
    /\ tag_ret = None

\* send() of a client: socket.send of a request
client_send ==
    /\ pc = "listening"
    /\ Len(server.replies) < MaxMessages
    /\ \E request \in Requests : wire' = Some([to |-> "remote", request |-> request])
    /\ pc' = "sent"
    /\ UNCHANGED <<doc, cj, err, sub_data, submission, args, remote, printed, server, tag_call, tag_ret>>

\* send() of a client: socket.recv() yields the reply, which is b"ack"
client_recv ==
    /\ pc = "served"
    /\ server.replies # <<>> /\ server.replies[Len(server.replies)] = "ack"
    /\ pc' = "listening"
    /\ UNCHANGED <<doc, cj, err, sub_data, submission, args, remote, printed, wire, server, tag_call, tag_ret>>

\* the numbers a !range sequence is drawn from: -1 .. 3, 0.5 and 1.5
RangeNumbers == { YamlInt(n) : n \in -1..3 } \cup { YamlFloat(1), YamlFloat(3) }

\* the files of the directory d a glob is drawn from
GlobFiles ==
    { <<"d", "/">> \o name : name \in
        { <<"f", "-", "1", ".", "t">>, <<"f", "-", "2", ".", "t">>, <<"f", "-", "1", "0", ".", "t">>,
          <<"f", "-", "0", "1", ".", "t">>, <<"f", "-", "a", ".", "t">>, <<"f", ".", "t">>, <<"a", "_", "2">> } }

\* the matches of a glob in the order the directory yields them: files, no
\* file twice
GlobMatches == { l \in SeqsUpTo(GlobFiles, MaxFiles) : \A i \in 1..Len(l), k \in 1..Len(l) : l[i] = l[k] => i = k }

\* the calls drawn: JobSettings with one size drawn and the other "1G", a
\* !range sequence, a glob, writes of a fresh db
TagCalls ==
    { [fn |-> "JobSettings", memory |-> v, disk |-> <<"1", "G">>] : v \in SeqsUpTo(SizeChars, MaxSizeLen) }
    \cup { [fn |-> "JobSettings", memory |-> <<"1", "G">>, disk |-> v] : v \in SeqsUpTo(SizeChars, MaxSizeLen) }
    \cup { [fn |-> "yaml_range", params |-> l] : l \in SeqsUpTo(RangeNumbers, MaxRangeArgs) }
    \cup { [fn |-> "yaml_glob", matched |-> l] : l \in GlobMatches }
    \cup { [fn |-> "write_submission_data"] }

\* a function of the document loader is called on drawn arguments
TagInit ==
    /\ pc = "called"
    /\ tag_call \in TagCalls
    /\ tag_ret = None
    /\ doc = [none |-> TRUE]
    /\ cj = NoJob
    /\ err = NoError
    /\ sub_data = NoSubmissionData
    /\ submission = NoSubmission
    /\ args = NoArgs
    /\ remote = NoSession
    /\ printed = <<>>
    /\ wire = None
    /\ server = IdleServer

construct_JobSettings ==
    /\ pc = "called"
    /\ tag_call.fn = "JobSettings"
    /\ tag_ret' = JobSettings_memory_disk(tag_call.memory, tag_call.disk)
    /\ pc' = "returned"
    /\ UNCHANGED <<doc, cj, err, sub_data, submission, args, remote, printed, wire, server, tag_call>>

eval_yaml_range ==
    /\ pc = "called"
    /\ tag_call.fn = "yaml_range"
    /\ tag_ret' = yaml_range(tag_call.params)
    /\ pc' = "returned"
    /\ UNCHANGED <<doc, cj, err, sub_data, submission, args, remote, printed, wire, server, tag_call>>

eval_yaml_glob ==
    /\ pc = "called"
    /\ tag_call.fn = "yaml_glob"
    /\ tag_ret' = yaml_glob(tag_call.matched)
    /\ pc' = "returned"
    /\ UNCHANGED <<doc, cj, err, sub_data, submission, args, remote, printed, wire, server, tag_call>>

\* write_submission_data is called on the db with a cluster id and a plan
call_write_submission_data ==
    /\ pc = "called"
    /\ tag_call.fn = "write_submission_data"
    /\ Len(server.events) < MaxMessages
    /\ \E cluster_id \in ClusterIds, m \in ClientPlans :
          /\ tag_ret' = [cluster_id |-> cluster_id, m |-> m, before |-> server.db,
                         exc |-> write_submission_data(server.db, cluster_id, m).exc]
          /\ server' = [server EXCEPT !.db = write_submission_data(server.db, cluster_id, m).rows,
                                      !.logged = @ \o write_submission_data(server.db, cluster_id, m).logged,
                                      !.events = Append(@, "write_submission_data")]
    /\ UNCHANGED <<pc, doc, cj, err, sub_data, submission, args, remote, printed, wire, tag_call>>

TagNext == construct_JobSettings \/ eval_yaml_range \/ eval_yaml_glob \/ call_write_submission_data

TagSpec == TagInit /\ [][TagNext]_vars

Next ==
    \/ load_job_yaml
    \/ compile_submission_data
    \/ copy_files_prep_dirs
    \/ send_submission_data
    \/ serve_forever
    \/ run_cluster_job_return

Spec == Init /\ [][Next]_vars

ServeNext == client_send \/ serve_forever \/ client_recv

ServeSpec == ServeInit /\ [][ServeNext]_vars


(* ----------------------------- properties ----------------------------- *)

\* b is q's final path component: it holds no separator and q ends with it,
\* at q's start or right after a separator
IsBareNameOf(b, q) ==
    /\ \A i \in 1..Len(b) : b[i] # "/"
    /\ Len(b) <= Len(q)
    /\ SubSeq(q, Len(q) - Len(b) + 1, Len(q)) = b
    /\ (Len(b) = Len(q) \/ q[Len(q) - Len(b)] = "/")

BareName(q) == CHOOSE b \in { SubSeq(q, i, Len(q)) : i \in 1..(Len(q) + 1) } : IsBareNameOf(b, q)

\* the lengths of the params sequences of the document, in document order
DocParamLens == [i \in 1..Len(doc.params.items) |-> Len(doc.params.items[i].v)]

\* C1: every JobParams that constructs has n_jobs equal to the common length
\* of the axes present: len(in_files) when in_files is non-empty, the length
\* of the params sequences when params is given.
C1_NJobsIsCommonLength ==
    pc = "loaded" =>
        /\ (Len(cj.params.in_files) > 0 => cj.params.n_jobs = Len(cj.params.in_files))
        /\ (cj.params.params.present =>
                \A i \in 1..Len(cj.params.params.items) : cj.params.n_jobs = Len(cj.params.params.items[i].v))

\* C2: with in_files non-empty and params present, construction succeeds only
\* if len(in_files) is the length of the params sequences, and then n_jobs is
\* that length; when the sequences share a length other than len(in_files) it
\* fails with the error that reports both counts.
C2_InsMatchParams ==
    (pc # "start" /\ Len(doc.in_files) > 0 /\ doc.params.present /\ doc.params.items # <<>>) =>
        /\ (pc # "load_failed" => \A i \in 1..Len(DocParamLens) : DocParamLens[i] = Len(doc.in_files))
        /\ (pc = "loaded" => cj.params.n_jobs = Len(doc.in_files))
        /\ (((\A i \in 1..Len(DocParamLens) : DocParamLens[i] = DocParamLens[1]) /\ DocParamLens[1] # Len(doc.in_files)) =>
                /\ pc = "load_failed"
                /\ err.exc = "ValueError"
                /\ err.msg = "ins_ne_params"
                /\ err.n_in = Len(doc.in_files)
                /\ err.n_params = DocParamLens[1])

\* C2 witness: two inputs against params sequences of length one were rejected
\* with both counts reported.
C2_Witness ==
    /\ pc = "load_failed"
    /\ Len(doc.in_files) = 2
    /\ err.exc = "ValueError"
    /\ err.msg = "ins_ne_params"
    /\ err.n_in = 2
    /\ err.n_params = 1

\* C3: with params present, construction fails when two sequences differ in
\* length, naming the first key in document order whose length differs from
\* the first key's; it passes only when all sequences share one length.
C3_ParamsShareLength ==
    (pc # "start" /\ doc.params.present /\ doc.params.items # <<>>) =>
        LET divergent == { i \in 1..Len(DocParamLens) : DocParamLens[i] # DocParamLens[1] }
        IN  /\ (pc # "load_failed" => divergent = {})
            /\ (divergent # {} =>
                    /\ pc = "load_failed"
                    /\ err.exc = "ValueError"
                    /\ err.msg = "params_unequal"
                    /\ err.first_key = doc.params.items[1].k
                    /\ \E i \in divergent :
                          /\ \A j \in divergent : i <= j
                          /\ err.key = doc.params.items[i].k
                          /\ err.n_params = DocParamLens[i])

\* C3 witness: three sequences, the second and the third both differing from
\* the first, were rejected naming the second key.
C3_Witness ==
    /\ pc = "load_failed"
    /\ doc.params.present
    /\ Len(doc.params.items) = 3
    /\ DocParamLens[2] # DocParamLens[1]
    /\ DocParamLens[3] # DocParamLens[1]
    /\ err.exc = "ValueError"
    /\ err.msg = "params_unequal"
    /\ err.key = doc.params.items[2].k

\* C4: with an explicit out_files list, construction succeeds only if the
\* number of output names equals n_jobs, the common length of the in_files
\* and params axes present.
C4_ExplicitOutsMatchNJobs ==
    (pc = "loaded" /\ cj.params.out_files.kind = "list") =>
        /\ Len(cj.params.out_files.names) = cj.params.n_jobs
        /\ (Len(cj.params.in_files) > 0 => Len(cj.params.out_files.names) = Len(cj.params.in_files))
        /\ (cj.params.params.present =>
                Len(cj.params.out_files.names) = Len(cj.params.params.items[1].v))

\* C5: every explicit output name of a JobParams that constructs is a bare
\* file name: it equals its own final path component.
C5_OutputNamesAreBare ==
    (pc = "loaded" /\ cj.params.out_files.kind = "list") =>
        \A i \in 1..Len(cj.params.out_files.names) :
            IsBareNameOf(cj.params.out_files.names[i], cj.params.out_files.names[i])


\* the task bundles of the compiled plan
Tasks == sub_data.payload.params

\* the output manifest the out_staging flag selects
OutManifest ==
    IF cj.job.out_staging THEN sub_data.payload.out_files_staging ELSE sub_data.payload.out_files

\* C6: task expansion yields exactly n_jobs bundles, and bundle j holds the
\* bare name of in_files[j] (no input when in_files is empty), the j-th output
\* name and the map from each params key to the j-th element of its sequence.
C6_TaskExpansion ==
    pc = "compiled" =>
        /\ Len(Tasks) = cj.params.n_jobs
        /\ \A j \in 0..(cj.params.n_jobs - 1) :
              /\ IF cj.params.in_files = <<>>
                 THEN Tasks[j + 1].in_files = None
                 ELSE /\ ~Tasks[j + 1].in_files.none
                      /\ IsBareNameOf(Tasks[j + 1].in_files.v, cj.params.in_files[j + 1])
              /\ ~Tasks[j + 1].out_files.none
              /\ IF cj.params.out_files.kind = "list"
                 THEN Tasks[j + 1].out_files.v = cj.params.out_files.names[j + 1]
                 ELSE IsBareNameOf(Tasks[j + 1].out_files.v, OutManifest[j + 1])
              /\ IF cj.params.params.present
                 THEN /\ ~Tasks[j + 1].params.none
                      /\ DOMAIN Tasks[j + 1].params.v = { cj.params.params.items[i].k : i \in 1..Len(cj.params.params.items) }
                      /\ \A i \in 1..Len(cj.params.params.items) :
                            Tasks[j + 1].params.v[cj.params.params.items[i].k] = cj.params.params.items[i].v[j + 1]
                 ELSE Tasks[j + 1].params = None

\* C6 witness: a plan of two bundles was expanded from two equal input paths,
\* explicit outputs and two params keys.
C6_Witness ==
    /\ pc = "compiled"
    /\ Len(Tasks) = 2
    /\ Len(cj.params.in_files) = 2
    /\ cj.params.in_files[1] = cj.params.in_files[2]
    /\ cj.params.out_files.kind = "list"
    /\ cj.params.out_files.names[1] # cj.params.out_files.names[2]
    /\ cj.params.params.present
    /\ Len(cj.params.params.items) >= 2

\* C7: with inputs present and an implicit-output rule, the output name of
\* every task j is the bare name of in_files[j] cut at its first dot, followed
\* by the suffix.
C7_ImplicitOutFromInput ==
    (pc = "compiled" /\ cj.params.in_files # <<>> /\ cj.params.out_files.kind = "implicit") =>
        \A j \in 0..(Len(Tasks) - 1) :
            LET name == BareName(cj.params.in_files[j + 1])
            IN  \E n \in 0..Len(name) :
                   /\ \A i \in 1..n : name[i] # "."
                   /\ (n = Len(name) \/ name[n + 1] = ".")
                   /\ Tasks[j + 1].out_files = Some(SubSeq(name, 1, n) \o cj.params.out_files.suffix)

\* C7 witness: the input d/a.b.c with suffix .x was given the output a.x.
C7_Witness ==
    /\ pc = "compiled"
    /\ cj.params.out_files.kind = "implicit"
    /\ Len(Tasks) >= 1
    /\ cj.params.in_files[1] = <<"d", "/", "a", ".", "b", ".", "c">>
    /\ Tasks[1].out_files = Some(<<"a", ".", "x">>)

\* C8: with no in_files, params sequences of length N and an implicit-output
\* rule, the plan holds N tasks and task j's output name is the decimal j
\* followed by the suffix.
C8_IndexNamedOutputs ==
    (pc = "compiled" /\ cj.params.in_files = <<>> /\ cj.params.params.present /\ cj.params.out_files.kind = "implicit") =>
        /\ Len(Tasks) = Len(cj.params.params.items[1].v)
        /\ \A j \in 0..(Len(Tasks) - 1) :
              Tasks[j + 1].out_files = Some(str_int(j) \o cj.params.out_files.suffix)

\* C9 as stated: per axis exactly one of the plain list and the staging list
\* of a plan is non-empty, the staging list exactly when the flag is set.
C9_ExactlyOneManifest ==
    pc = "compiled" =>
        /\ (sub_data.payload.in_files # <<>>) # (sub_data.payload.in_files_staging # <<>>)
        /\ (sub_data.payload.in_files_staging # <<>>) <=> cj.job.in_staging
        /\ (sub_data.payload.out_files # <<>>) # (sub_data.payload.out_files_staging # <<>>)
        /\ (sub_data.payload.out_files_staging # <<>>) <=> cj.job.out_staging

\* the number of output names get_runner_payload resolved
NumOutNames ==
    IF cj.params.out_files.kind = "list" THEN Len(cj.params.out_files.names) ELSE cj.params.n_jobs

\* C9 amended: per axis the list the staging flag does not select is empty
\* and the list it selects holds one entry per input file (per output name),
\* so at most one list of an axis is non-empty and both are empty when the
\* axis has no files.
C9_AtMostOneManifest ==
    pc = "compiled" =>
        /\ IF cj.job.in_staging
           THEN /\ sub_data.payload.in_files = <<>>
                /\ Len(sub_data.payload.in_files_staging) = Len(cj.params.in_files)
           ELSE /\ sub_data.payload.in_files_staging = <<>>
                /\ Len(sub_data.payload.in_files) = Len(cj.params.in_files)
        /\ IF cj.job.out_staging
           THEN /\ sub_data.payload.out_files = <<>>
                /\ Len(sub_data.payload.out_files_staging) = NumOutNames
           ELSE /\ sub_data.payload.out_files_staging = <<>>
                /\ Len(sub_data.payload.out_files) = NumOutNames

\* C9 witness: a plan with input staging on and output staging off carries
\* input URLs and plain output paths.
C9_Witness ==
    /\ pc = "compiled"
    /\ cj.job.in_staging
    /\ ~cj.job.out_staging
    /\ sub_data.payload.in_files_staging # <<>>
    /\ sub_data.payload.in_files = <<>>
    /\ sub_data.payload.out_files # <<>>
    /\ sub_data.payload.out_files_staging = <<>>

\* the states in which run_cluster_job holds the plan it compiled
HasPlan == pc \in {"compiled", "prepared", "prep_failed", "sent", "unsent", "served", "done", "print_failed"}

\* C11: for a job with inputs, input staging on and output staging off, the
\* server compiles a directive map that omits transfer_input_files and holds
\* the four output-transfer directives, and every itemdata row carries
\* job_out_file and out_file and no in_file
C11_StagedInputsNotTransferred ==
    (pc = "served" /\ cj.params.in_files # <<>> /\ cj.job.in_staging /\ ~cj.job.out_staging) =>
        /\ submission.status = "compiled"
        /\ "transfer_input_files" \notin DOMAIN submission.sub
        /\ {"should_transfer_files", "when_to_transfer_output", "transfer_output_files", "transfer_output_remaps"}
             \subseteq DOMAIN submission.sub
        /\ \A i \in 1..Len(submission.itemdata) :
              /\ {"job_out_file", "out_file"} \subseteq DOMAIN submission.itemdata[i]
              /\ "in_file" \notin DOMAIN submission.itemdata[i]

\* the manifest list the submit side filled for an axis: of the plain and
\* the staging list, the one that is not empty
Populated(plain, staging) == IF plain # <<>> THEN plain ELSE staging

\* C12: on every plan get_runner_payload produced, whenever has_inputs()
\* holds, get_in_file(j) is defined for every task index j and is the j-th
\* entry of the input manifest the submit side filled; the same for
\* has_outputs(), get_out_file(j) and the output manifest
C12_LookupAgreesWithManifest ==
    HasPlan =>
        \A j \in 0..(Len(sub_data.payload.params) - 1) :
            /\ payload_has_inputs(sub_data.payload) =>
                  /\ j + 1 <= Len(Populated(sub_data.payload.in_files, sub_data.payload.in_files_staging))
                  /\ get_in_file(sub_data.payload, j).ok
                  /\ get_in_file(sub_data.payload, j).v
                       = Populated(sub_data.payload.in_files, sub_data.payload.in_files_staging)[j + 1]
            /\ payload_has_outputs(sub_data.payload) =>
                  /\ j + 1 <= Len(Populated(sub_data.payload.out_files, sub_data.payload.out_files_staging))
                  /\ get_out_file(sub_data.payload, j).ok
                  /\ get_out_file(sub_data.payload, j).v
                       = Populated(sub_data.payload.out_files, sub_data.payload.out_files_staging)[j + 1]

\* a plan of two tasks with staged inputs and plain outputs, whose second
\* lookups give the second staging URL and the second plain output path
C12_Witness ==
    /\ pc = "compiled"
    /\ Len(sub_data.payload.params) = 2
    /\ sub_data.payload.job.in_staging /\ ~sub_data.payload.job.out_staging
    /\ payload_has_inputs(sub_data.payload) /\ payload_has_outputs(sub_data.payload)
    /\ get_in_file(sub_data.payload, 1) = Ok(sub_data.payload.in_files_staging[2])
    /\ get_out_file(sub_data.payload, 1) = Ok(sub_data.payload.out_files[2])

\* the task bundles and the four manifest lists of plan m are those of
\* plan p, field for field
SameTasksAndManifests(p, m) ==
    /\ Len(m.params) = Len(p.params)
    /\ \A i \in 1..Len(p.params) :
          /\ m.params[i].in_files = p.params[i].in_files
          /\ m.params[i].out_files = p.params[i].out_files
          /\ m.params[i].params = p.params[i].params
    /\ m.in_files = p.in_files
    /\ m.out_files = p.out_files
    /\ m.in_files_staging = p.in_files_staging
    /\ m.out_files_staging = p.out_files_staging

\* the request parsed to plan m, and m agrees with plan p
ParsedAs(p, m) == ~m.none /\ SameTasksAndManifests(p, m.v)

C14_NoSubmissionAfterCompileFailure ==
    /\ submission.status = "raised" => (server.schedd = <<>> /\ server.db = <<>>)
    /\ \A i \in 1..Len(server.schedd) :
          Len(server.schedd[i].itemdata) = Len(server.parsed.v.params)

\* a server started without --dry-run replied to a plan, make_submission
\* raised for it, and the scheduler and the database are untouched
C14_Witness ==
    /\ pc = "served"
    /\ ~server.dry_run
    /\ ~server.parsed.none
    /\ submission.status = "raised"
    /\ server.logged = <<submission.exc>>
    /\ server.schedd = <<>>
    /\ server.db = <<>>

\* the plan get_runner_payload compiles for the job cj on its directories
PlanOf(cluster_job, job_dir) ==
    get_runner_payload(cluster_job,
                       get_input_output_dirs(cluster_job.job, SshRemoteUser, job_dir).input_dir,
                       get_input_output_dirs(cluster_job.job, SshRemoteUser, job_dir).output_dir,
                       job_dir)

\* something was done outside run_cluster_job: a call on the submit host, a
\* request sent, a request served
ActedOutside == remote.opened \/ remote.log # <<>> \/ ~wire.none \/ server.replies # <<>>

\* C15: run_cluster_job makes no call on the submit host and sends nothing
\* unless the document loaded and validated and the job compiled into a
\* complete plan, the one the run holds; a run that failed to load or to
\* compile has made no such call, sent nothing, printed nothing and holds no
\* submission data
C15_NoActionWithoutPlan ==
    /\ ActedOutside =>
          /\ HasPlan
          /\ ClusterJob(doc.in_files, doc.out_files, doc.params, doc.in_staging, doc.out_staging).ok
          /\ PlanOf(cj, PathJoin(CLUSTER_DIR, cj.job.name)).ok
          /\ sub_data.payload = PlanOf(cj, PathJoin(CLUSTER_DIR, cj.job.name)).v
    /\ pc \in {"load_failed", "compile_failed"} =>
          /\ ~ActedOutside
          /\ printed = <<>>
          /\ sub_data = NoSubmissionData

\* a run that made its directories, wrote params.json, copied two inputs and
\* sent its plan
C15_Witness ==
    /\ pc = "sent"
    /\ ~wire.none
    /\ Len(SelectSeq(remote.log, LAMBDA c : c.op = "copy_file")) = 2
    /\ \E i \in 1..Len(remote.log) : remote.log[i].op = "mkdir"
    /\ \E i \in 1..Len(remote.log) : remote.log[i].op = "write_file"

\* v is as a whole one or more decimal digits, then one of K, M, G, T, then
\* an optional B
IsSize(v) ==
    \E n \in 1..Len(v) :
        /\ \A i \in 1..n : v[i] \in DecimalDigits
        /\ Len(v) > n
        /\ v[n + 1] \in SizeUnits
        /\ (Len(v) = n + 1 \/ (Len(v) = n + 2 /\ v[n + 2] = "B"))

\* C16: JobSettings is constructed only if memory and disk each are, as a
\* whole value, one or more digits, one of K, M, G, T and an optional B;
\* any other string, a negative value among them, is rejected
C16_SizesAreWholeValues ==
    (pc = "returned" /\ tag_call.fn = "JobSettings" /\ tag_ret.ok) =>
        (IsSize(tag_call.memory) /\ IsSize(tag_call.disk))

IsIntegral(x) == x.h % 2 = 0

\* the value h (in halves) lies before stop in the direction of step
BeforeStop(h, stop, step) == IF step.h > 0 THEN h < stop.h ELSE h > stop.h

\* l is the progression start, start + step, ... up to and without stop
IsProgression(l, start, stop, step) ==
    /\ \A i \in 1..Len(l) :
          l[i].h = start.h + (i - 1) * step.h /\ BeforeStop(l[i].h, stop, step)
    /\ ~BeforeStop(start.h + Len(l) * step.h, stop, step)

RangeStart(p) == IF Len(p) = 1 THEN YamlInt(0) ELSE p[1]

RangeStop(p) == IF Len(p) = 1 THEN p[1] ELSE p[2]

RangeStep(p) == IF Len(p) = 3 THEN p[3] ELSE YamlInt(1)

\* C17: !range fails on three arguments whose step is not an integer and
\* on any count of arguments other than 1, 2 or 3; on 1, 2 or 3 integers
\* (a step other than 0) it yields the progression from start by step up to
\* and without stop
C17_RangeRejectsFractionalStep ==
    (pc = "returned" /\ tag_call.fn = "yaml_range") =>
        /\ Len(tag_call.params) \notin 1..3 => ~tag_ret.ok
        /\ (Len(tag_call.params) = 3 /\ ~IsIntegral(tag_call.params[3])) => ~tag_ret.ok
        /\ (/\ Len(tag_call.params) \in 1..3
            /\ \A i \in 1..Len(tag_call.params) : IsIntegral(tag_call.params[i])
            /\ RangeStep(tag_call.params).h # 0) =>
              /\ tag_ret.ok
              /\ IsProgression(tag_ret.v, RangeStart(tag_call.params), RangeStop(tag_call.params),
                               RangeStep(tag_call.params))

\* the key of file a sorts before the key of file b
KeyBefore(a, b) ==
    tuple_lt(file_sorter(a), file_sorter(b)).ok /\ tuple_lt(file_sorter(a), file_sorter(b)).v

\* C18: on one or more matched files !glob returns all of them, ordered by
\* the key of the name split on "-", "_", ":" and ".", numeric tokens
\* compared as numbers; on no match it fails
C18_GlobSortedByNaturalKey ==
    (pc = "returned" /\ tag_call.fn = "yaml_glob") =>
        IF tag_call.matched = <<>> THEN ~tag_ret.ok
        ELSE /\ tag_ret.ok
             /\ Len(tag_ret.v) = Len(tag_call.matched)
             /\ { tag_ret.v[i] : i \in 1..Len(tag_ret.v) }
                  = { tag_call.matched[i] : i \in 1..Len(tag_call.matched) }
             /\ \A i \in 1..Len(tag_ret.v), k \in 1..Len(tag_ret.v) :
                   i < k => ~KeyBefore(tag_ret.v[k], tag_ret.v[i])

\* C19: get_submission_data leaves every field of the ClusterJob's settings
\* and of its params as it found them
C19_CompileLeavesJobUnchanged ==
    [][pc = "loaded" => (cj'.job = cj.job /\ cj'.params = cj.params)]_vars

\* the output directory of the job on the submit host
JobOutputDir ==
    IF sub_data.payload.job.out_staging THEN sub_data.payload.out_dir
    ELSE PathJoin(sub_data.payload.job_dir, sub_data.payload.out_dir)

\* the directories of the job in the order of the claim: staging (if any),
\* job, log, input, output
DirsInOrder ==
    (IF sub_data.staging_dir.none THEN <<>> ELSE <<sub_data.staging_dir.v>>)
    \o <<sub_data.payload.job_dir,
         PathJoin(sub_data.payload.job_dir, sub_data.payload.log_dir),
         sub_data.job_input_dir,
         JobOutputDir>>

\* the tasks (1-based) that have an input, in index order
TasksWithInput ==
    SelectSeq([i \in 1..Len(sub_data.payload.params) |-> i],
              LAMBDA i : ~sub_data.payload.params[i].in_files.none)

\* what was called on the submit host, in order: the operation, its path
\* and its source
CallsMade == [i \in 1..Len(remote.log) |-> <<remote.log[i].op, remote.log[i].path, remote.log[i].src>>]

\* the calls of a complete preparation in the order of the claim
CallsInOrder ==
    [i \in 1..Len(DirsInOrder) |-> <<"mkdir", DirsInOrder[i], <<>>>>]
    \o << <<"write_file", PathJoin(sub_data.payload.job_dir, <<"params", ".", "json">>), <<>>>> >>
    \o [k \in 1..Len(TasksWithInput) |->
          <<"copy_file",
            PathJoin(sub_data.job_input_dir, sub_data.payload.params[TasksWithInput[k]].in_files.v),
            sub_data.cj.params.in_files[TasksWithInput[k]]>>]

IsPrefix(a, b) == Len(a) <= Len(b) /\ SubSeq(b, 1, Len(a)) = a

\* C20: in a run that is not a dry run the calls on the submit host are made
\* in one order (the staging directory if any, the job, log, input and
\* output directories, params.json, the task inputs by task index), and the
\* plan is sent only after all of them went through: every directory
\* exists and every task's input is in the input directory
C20_RemoteActionsInOrder ==
    remote.opened =>
        /\ IsPrefix(CallsMade, CallsInOrder)
        /\ (~wire.none \/ server.replies # <<>>) =>
              /\ CallsMade = CallsInOrder
              /\ \A i \in 1..Len(DirsInOrder) : DirsInOrder[i] \in remote.fs
              /\ \A k \in 1..Len(TasksWithInput) :
                    PathJoin(sub_data.job_input_dir, sub_data.payload.params[TasksWithInput[k]].in_files.v)
                      \in remote.fs

\* a run with a staging directory sent its plan after five mkdirs, the
\* write of params.json and the copies of two task inputs
C20_Witness ==
    /\ pc = "sent"
    /\ remote.opened
    /\ ~sub_data.staging_dir.none
    /\ Len(TasksWithInput) = 2
    /\ Len(remote.log) = 8
    /\ remote.log[1].op = "mkdir" /\ remote.log[1].path = sub_data.staging_dir.v
    /\ remote.log[6].op = "write_file"
    /\ remote.log[7].src = sub_data.cj.params.in_files[1]
    /\ remote.log[8].src = sub_data.cj.params.in_files[2]

\* C21: a dry run opens no ssh session, makes no call on the remote host
\* and fails on none; without test_local it sends no plan and no server hears
\* of it, with test_local the plan in flight goes to the local server
C21_DryRunStaysLocal ==
    (args # NoArgs /\ args.dry_run) =>
        /\ remote = NoSession
        /\ pc # "prep_failed"
        /\ ~wire.none => (args.test_local /\ wire.v.to = "local")
        /\ ~args.test_local => (wire.none /\ server = IdleServer /\ pc \notin {"sent", "served"})

\* a dry run with test_local of a job with two tasks and inputs was served
\* by the local server, its calls printed and the host never opened
C21_Witness ==
    /\ pc = "served"
    /\ args.dry_run
    /\ args.test_local
    /\ Len(sub_data.payload.params) = 2
    /\ sub_data.cj.params.in_files # <<>>
    /\ server.replies = <<"ack">>
    /\ remote = NoSession
    /\ Len(printed) >= 4

\* C22: a server run with --dry-run hands nothing to the scheduler and
\* writes no database row; it replies "ack" to every message and compiles
\* the descriptor of every plan it parsed
C22_DryRunServerCompilesOnly ==
    (server.dry_run /\ pc = "served") =>
        /\ server.schedd = <<>>
        /\ server.db = <<>>
        /\ server.replies # <<>> /\ server.replies[Len(server.replies)] = "ack"
        /\ ~server.parsed.none => submission.status = "compiled"

\* the positions of the event e in the server's trace
EventsAt(e) == { i \in 1..Len(server.events) : server.events[i] = e }

NumRows(rows, tbl, c) == Cardinality({ i \in 1..Len(rows) : rows[i].tbl = tbl /\ rows[i].cluster_id = c })

\* rows holds the rows of before and, behind them, those of one submission
\* of n tasks under the cluster id c, which before did not hold
Committed(before, rows, c, n) ==
    /\ Len(rows) = Len(before) + 2 + n
    /\ SubSeq(rows, 1, Len(before)) = before
    /\ NumRows(before, "job_classads", c) + NumRows(before, "jobs", c) + NumRows(before, "procs", c) = 0
    /\ NumRows(rows, "job_classads", c) = 1
    /\ NumRows(rows, "jobs", c) = 1
    /\ NumRows(rows, "procs", c) = n

\* C27: a call of write_submission_data commits the job_classads row, the
\* jobs row and a procs row for every task, or leaves the tables as they
\* were; on a cluster id already recorded it changes nothing and raises
\* nothing; every jobs and procs row refers to a job_classads row
C27_WriteIsAllOrNothing ==
    /\ \A i \in 1..Len(server.db) :
          server.db[i].tbl \in {"jobs", "procs"} => NumRows(server.db, "job_classads", server.db[i].cluster_id) = 1
    /\ (tag_call.fn = "write_submission_data" /\ tag_ret # None) =>
          /\ \/ server.db = tag_ret.before
             \/ Committed(tag_ret.before, server.db, tag_ret.cluster_id, Len(tag_ret.m.params))
          /\ tag_ret.exc # "none" => server.db = tag_ret.before
          /\ NumRows(tag_ret.before, "job_classads", tag_ret.cluster_id) > 0 =>
                (server.db = tag_ret.before /\ tag_ret.exc = "none")

\* a plan of two tasks was written, and a second write under the same
\* cluster id left the four rows as they were and raised nothing
C27_Witness ==
    /\ tag_call.fn = "write_submission_data"
    /\ tag_ret # None
    /\ Len(server.events) = 2
    /\ NumRows(tag_ret.before, "job_classads", tag_ret.cluster_id) = 1
    /\ NumRows(server.db, "procs", tag_ret.cluster_id) = 2
    /\ Len(server.db) = 4
    /\ server.db = tag_ret.before
    /\ server.logged = <<"IntegrityError">>
    /\ tag_ret.exc = "none"

\* C23: when the job directory is on the remote host as the sftp session of
\* a run opens, the run fails having made no directory, written no file and
\* copied no input, the host is as it was, and no plan is sent
C23_ExistingJobDirLeftAlone ==
    (remote.opened /\ sub_data.payload.job_dir \in remote.before) =>
        /\ pc = "prep_failed"
        /\ remote.log = <<>>
        /\ remote.fs = remote.before
        /\ wire.none
        /\ server = IdleServer

\* C28: in the plan run_cluster_job holds, two tasks never share an output
\* name, nor an output transfer destination
C28_TasksHaveDistinctOutputs ==
    HasPlan =>
        \A i \in 1..Len(sub_data.payload.params), k \in 1..Len(sub_data.payload.params) :
            i # k =>
                /\ sub_data.payload.params[i].out_files # sub_data.payload.params[k].out_files
                /\ get_out_file(sub_data.payload, i - 1) # get_out_file(sub_data.payload, k - 1)

====
